---------------------------- MODULE Spec2Model ----------------------------
(***************************************************************************)
(* Model of line_to_bot.py: the technical-book release notifier.           *)
(*                                                                         *)
(* A Python str is modelled as the sequence of its Unicode code points,    *)
(* so that replace/strip/strptime, the f-string of format_message and the  *)
(* slicing of send_line_message are computed on the characters.            *)
(* A date is modelled by its proleptic Gregorian ordinal (date.toordinal). *)
(***************************************************************************)
EXTENDS Integers, Sequences, FiniteSets, TLC

(***************************************************************************)
(* Bounds of the model.                                                    *)
(***************************************************************************)
\* longest list of records given to filter/sort/format in SpecUnit
MaxBooks == 3
\* length of the long description that makes a digest exceed one chunk
LongLen == 4990
\* SpecSend draws messages of up to MaxChunks full chunks (plus one character)
MaxChunks == 2

(***************************************************************************)
(* Program constants.                                                      *)
(***************************************************************************)
\* timedelta(days=90)
WindowDays == 90
\* message[i:i+5000], range(0, len(message), 5000)
ChunkSize == 5000
\* response.status_code != 200
StatusOk == 200
\* lambda_handler's 'statusCode': 200
LambdaStatusCode == 200

(***************************************************************************)
(* Characters and strings.                                                 *)
(***************************************************************************)
Min(a, b) == IF a <= b THEN a ELSE b

\* the code points str.isspace() accepts, which str.strip() removes
Whitespace ==
    {9, 10, 11, 12, 13, 28, 29, 30, 31, 32, 133, 160, 5760, 8232, 8233,
     8239, 8287, 12288} \cup (8192..8202)

IsDigit(c) == c \in 48..57

DigitVal(c) == c - 48

\* s[i:j] of Python for 0 <= i: the characters at 0-based positions i..j-1
Slice(s, i, j) == SubSeq(s, i + 1, Min(j, Len(s)))

StartsWithAt(s, i, pat) ==
    /\ i + Len(pat) - 1 <= Len(s)
    /\ \A k \in 1..Len(pat) : s[i + k - 1] = pat[k]

\* s.replace(old, ''): every non-overlapping occurrence, left to right
RECURSIVE RemoveAll(_, _)
RemoveAll(s, old) ==
    IF s = <<>> THEN <<>>
    ELSE IF StartsWithAt(s, 1, old)
         THEN RemoveAll(SubSeq(s, Len(old) + 1, Len(s)), old)
         ELSE <<Head(s)>> \o RemoveAll(Tail(s), old)

\* the first position at or after i that holds no whitespace
RECURSIVE SkipLeft(_, _)
SkipLeft(s, i) ==
    IF i > Len(s) THEN i
    ELSE IF s[i] \in Whitespace THEN SkipLeft(s, i + 1) ELSE i

\* the last position at or before i that holds no whitespace
RECURSIVE SkipRight(_, _)
SkipRight(s, i) ==
    IF i < 1 THEN i
    ELSE IF s[i] \in Whitespace THEN SkipRight(s, i - 1) ELSE i

\* s.strip()
Strip(s) == SubSeq(s, SkipLeft(s, 1), SkipRight(s, Len(s)))

\* the literal '発売' (hatsubai, "released") of lines 109 and 128
ReleasedSuffix == <<30330, 22770>>

\* the literal 'N/A' of lines 57, 60 and 63
NA == <<78, 47, 65>>

(***************************************************************************)
(* datetime.strptime(s, '%Y.%m.%d').date()                                 *)
(***************************************************************************)
IsLeap(y) == (y % 4 = 0) /\ ((y % 100 # 0) \/ (y % 400 = 0))

DaysInMonth(y, m) ==
    IF m = 2 THEN (IF IsLeap(y) THEN 29 ELSE 28)
    ELSE IF m \in {4, 6, 9, 11} THEN 30 ELSE 31

RECURSIVE DaysBeforeMonth(_, _)
DaysBeforeMonth(y, m) ==
    IF m = 1 THEN 0 ELSE DaysBeforeMonth(y, m - 1) + DaysInMonth(y, m - 1)

DaysBeforeYear(y) ==
    (y - 1) * 365 + ((y - 1) \div 4) - ((y - 1) \div 100) + ((y - 1) \div 400)

\* date(y, m, d).toordinal()
Ordinal(y, m, d) == DaysBeforeYear(y) + DaysBeforeMonth(y, m) + d

\* %m: 1[0-2]|0[1-9]|[1-9]
MatchesMonth(t) ==
    \/ Len(t) = 2 /\ t[1] = 49 /\ t[2] \in 48..50
    \/ Len(t) = 2 /\ t[1] = 48 /\ t[2] \in 49..57
    \/ Len(t) = 1 /\ t[1] \in 49..57

\* %d: 3[01]|[12]\d|0[1-9]|[1-9]| [1-9]
MatchesDay(t) ==
    \/ Len(t) = 2 /\ t[1] = 51 /\ t[2] \in 48..49
    \/ Len(t) = 2 /\ t[1] \in 49..50 /\ IsDigit(t[2])
    \/ Len(t) = 2 /\ t[1] = 48 /\ t[2] \in 49..57
    \/ Len(t) = 1 /\ t[1] \in 49..57
    \/ Len(t) = 2 /\ t[1] = 32 /\ t[2] \in 49..57

\* int() of a matched group: digits, with the leading space %d allows
RECURSIVE ToInt(_)
ToInt(t) ==
    IF t = <<>> THEN 0
    ELSE IF t[Len(t)] = 32 THEN 0
    ELSE 10 * ToInt(SubSeq(t, 1, Len(t) - 1)) + DigitVal(t[Len(t)])

ValueError == [ok |-> FALSE, ord |-> 0]

\* [ok |-> TRUE, ord |-> the date's ordinal], or ValueError
Strptime(s) ==
    LET dots == {i \in 1..Len(s) : s[i] = 46}
    IN  IF ~(Cardinality(dots) = 2 /\ 5 \in dots) THEN ValueError
        ELSE LET p2 == CHOOSE i \in dots : i # 5
                 ys == SubSeq(s, 1, 4)
                 ms == SubSeq(s, 6, p2 - 1)
                 ds == SubSeq(s, p2 + 1, Len(s))
             IN  IF ~(/\ \A k \in 1..4 : IsDigit(ys[k])
                      /\ MatchesMonth(ms)
                      /\ MatchesDay(ds))
                 THEN ValueError
                 ELSE LET y == ToInt(ys)
                          m == ToInt(ms)
                          d == ToInt(ds)
                      IN  IF y < 1 \/ d > DaysInMonth(y, m) THEN ValueError
                          ELSE [ok |-> TRUE, ord |-> Ordinal(y, m, d)]

\* strptime(x['release_date'].replace(suffix, '').strip(), '%Y.%m.%d').date()
ReleaseDate(book) == Strptime(Strip(RemoveAll(book.release_date, ReleasedSuffix)))

(***************************************************************************)
(* Environment and literals.                                               *)
(***************************************************************************)
LINE_USER_ID == "LINE_USER_ID"

LINE_BOT_PUSH_URL == "LINE_BOT_PUSH_URL"

LINE_CHANNEL_ACCESS_TOKEN == "LINE_CHANNEL_ACCESS_TOKEN"

SESHOP_URL == "SESHOP_URL"

\* Python's None
None == [type |-> "NoneType"]

\* the text returned by format_message for an empty list (line 141)
NoBooksMessage ==
    <<26032, 21002, 26360, 31821, 12399, 35211, 12388, 12363, 12426, 12414,
      12379, 12435, 12391, 12375, 12383, 12290>>

\* the text main passes to send_line_message in its else branch (line 199)
MainNoBooksMessage ==
    <<26032, 21002, 26360, 31821, 12399, 35211, 12388, 12363, 12426, 12414,
      12379, 12435, 12391, 12375, 12383, 12290>>

\* the header of the digest, ending in two line feeds (line 143)
MessageHeader ==
    <<36817, 26085, 30330, 22770, 20104, 23450, 12398, 25216, 34899, 26360,
      31821, 58, 10, 10>>

\* the labels of the f-string of line 145
TitleLabel == <<12479, 12452, 12488, 12523, 58, 32>>

DateLabel == <<10, 30330, 22770, 26085, 58, 32>>

DescriptionLabel == <<10, 35500, 26126, 58, 32>>

BlockEnd == <<10, 10>>

(***************************************************************************)
(* fetch_books_from_page                                                   *)
(*                                                                         *)
(* A listing item (div.col-md-4.col-sm-6) is modelled by what the          *)
(* selectors of lines 56-62 find in it: whether it holds a div.txt, the    *)
(* texts of the <a> and <p> elements inside that div.txt, and the texts    *)
(* of its span.date elements.                                              *)
(***************************************************************************)
\* tag.find(...): the first match (a tag, with its text), or None
FindFirst(texts) ==
    IF texts = <<>> THEN None ELSE [type |-> "Tag", text |-> texts[1]]

\* lines 56-69 for one item: the record appended, or the AttributeError
\* of None.find when item.find('div', class_='txt') is None
ExtractBook(item) ==
    IF ~item.has_txt THEN [exc |-> "AttributeError", book |-> None]
    ELSE LET title_tag == FindFirst(item.links)
             release_date_tag == FindFirst(item.dates)
             description_tags == item.paragraphs
         IN  [exc |-> "none",
              book |-> [title |-> IF title_tag # None
                                  THEN Strip(title_tag.text) ELSE NA,
                        release_date |-> IF release_date_tag # None
                                         THEN Strip(release_date_tag.text) ELSE NA,
                        description |-> IF Len(description_tags) > 1
                                        THEN Strip(description_tags[2])
                                        ELSE NA]]

\* the loop of lines 54-69
RECURSIVE ExtractBooks(_, _)
ExtractBooks(items, books) ==
    IF items = <<>> THEN [exc |-> "none", books |-> books]
    ELSE LET r == ExtractBook(Head(items))
         IN  IF r.exc # "none" THEN [exc |-> r.exc, books |-> books]
             ELSE ExtractBooks(Tail(items), Append(books, r.book))

\* fetch_books_from_page for one outcome of requests.get: a response, or
\* the exception requests.get raises when no response arrives
FetchBooksFromPage(outcome) ==
    IF outcome.kind = "error" THEN [exc |-> "ConnectionError", books |-> <<>>]
    ELSE IF outcome.status_code # StatusOk THEN [exc |-> "none", books |-> <<>>]
    ELSE ExtractBooks(outcome.items, <<>>)

\* for category in [7, 8]
Categories == <<7, 8>>

\* for page in range(1, 5)
Pages == <<1, 2, 3, 4>>

\* PagePairs with the loops nested the other way round
PagePairsPageOuter ==
    [i \in 1..(Len(Categories) * Len(Pages)) |->
        <<Categories[((i - 1) % Len(Categories)) + 1],
          Pages[((i - 1) \div Len(Categories)) + 1]>>]

\* the (category, page) pairs in the order the nested loops visit them
PagePairs ==
    [i \in 1..(Len(Categories) * Len(Pages)) |->
        <<Categories[((i - 1) \div Len(Pages)) + 1],
          Pages[((i - 1) % Len(Pages)) + 1]>>]

\* f'{SESHOP_URL}/{category}?p={page}'
PageUrl(pair) == [base |-> SESHOP_URL, category |-> pair[1], p |-> pair[2]]

(***************************************************************************)
(* filter_books_by_3_months_and_upcoming                                   *)
(***************************************************************************)
\* InWindow with the lower end of the window excluded
InWindowExclusive(release_date, today) ==
    LET three_months_ago == today - WindowDays
    IN  \/ release_date > today
        \/ (three_months_ago < release_date /\ release_date <= today)

\* line 112, for a parsed release date
InWindow(release_date, today) ==
    LET three_months_ago == today - WindowDays
    IN  \/ release_date > today
        \/ (three_months_ago <= release_date /\ release_date <= today)

\* KeepsBook with the except branch appending the record
KeepsBookUnparsed(book, today) ==
    LET parsed == ReleaseDate(book)
    IN  IF ~parsed.ok THEN TRUE ELSE InWindow(parsed.ord, today)

\* the body of the loop: try / except ValueError: continue
KeepsBook(book, today) ==
    LET parsed == ReleaseDate(book)
    IN  IF ~parsed.ok THEN FALSE ELSE InWindow(parsed.ord, today)

RECURSIVE FilterBooks(_, _)
FilterBooks(books, today) ==
    IF books = <<>> THEN <<>>
    ELSE IF KeepsBook(Head(books), today)
         THEN <<Head(books)>> \o FilterBooks(Tail(books), today)
         ELSE FilterBooks(Tail(books), today)

(***************************************************************************)
(* sort_books_by_date                                                      *)
(***************************************************************************)
\* the key of line 128 raises ValueError on a date that does not parse
SortRaises(books) == \E i \in 1..Len(books) : ~ReleaseDate(books[i]).ok

SortKey(book) == ReleaseDate(book).ord

\* InsertPosition of an ascending sort that is then reversed: a record goes
\* before the records of the same date
InsertPositionBeforeEqual(placed, book) ==
    Cardinality({i \in 1..Len(placed) : SortKey(placed[i]) > SortKey(book)})

\* where sorted(..., reverse=True) places a record among those already
\* placed: after every record whose key is greater or equal
InsertPosition(placed, book) ==
    Cardinality({i \in 1..Len(placed) : SortKey(placed[i]) >= SortKey(book)})

InsertBook(placed, book) ==
    LET n == InsertPosition(placed, book)
    IN  SubSeq(placed, 1, n) \o <<book>> \o SubSeq(placed, n + 1, Len(placed))

RECURSIVE SortInto(_, _)
SortInto(placed, books) ==
    IF books = <<>> THEN placed
    ELSE SortInto(InsertBook(placed, Head(books)), Tail(books))

SortBooksByDate(books) == SortInto(<<>>, books)

(***************************************************************************)
(* format_message                                                          *)
(***************************************************************************)
\* FormatBlock with the description printed where the date belongs
FormatBlockSwapped(book) ==
    TitleLabel \o book.title \o DateLabel \o book.description
        \o DescriptionLabel \o book.release_date \o BlockEnd

\* the f-string of line 145
FormatBlock(book) ==
    TitleLabel \o book.title \o DateLabel \o book.release_date
        \o DescriptionLabel \o book.description \o BlockEnd

\* the loop of lines 144-145: message += block
RECURSIVE AppendBlocks(_, _)
AppendBlocks(message, books) ==
    IF books = <<>> THEN message
    ELSE AppendBlocks(message \o FormatBlock(Head(books)), Tail(books))

FormatMessage(books) ==
    IF books = <<>> THEN NoBooksMessage
    ELSE AppendBlocks(MessageHeader, books)

(***************************************************************************)
(* send_line_message                                                       *)
(***************************************************************************)
\* range(start, stop, step) for step > 0
RECURSIVE PyRange(_, _, _)
PyRange(start, stop, step) ==
    IF start >= stop THEN <<>>
    ELSE <<start>> \o PyRange(start + step, stop, step)

\* SplitMessage with range(0, len(message) + 1, 5000)
SplitMessageOffByOne(message) ==
    LET starts == PyRange(0, Len(message) + 1, ChunkSize)
    IN  [k \in 1..Len(starts) |->
            Slice(message, starts[k], starts[k] + ChunkSize)]

\* [message[i:i+5000] for i in range(0, len(message), 5000)]
SplitMessage(message) ==
    LET starts == PyRange(0, Len(message), ChunkSize)
    IN  [k \in 1..Len(starts) |->
            Slice(message, starts[k], starts[k] + ChunkSize)]

\* the request of lines 164-181 for one chunk
PushRequest(msg) ==
    [url |-> LINE_BOT_PUSH_URL,
     authorization |-> <<"Bearer", LINE_CHANNEL_ACCESS_TOKEN>>,
     to |-> LINE_USER_ID,
     messages |-> <<[type |-> "text", text |-> msg]>>]

\* lambda_handler's return value
LambdaResponse ==
    [statusCode |-> LambdaStatusCode, body |-> "\"News sent successfully!\""]

(***************************************************************************)
(* State.                                                                  *)
(***************************************************************************)
VARIABLES
    pc,              \* where the run is: "fetch", "filter", "sort", "format",
                     \* "send", "post", "done", or "raised"
    entry,           \* the entry point called: "main" or "lambda_handler"
    exc,             \* the exception that ended the run, or "none"
    idx,             \* fetch_all_books: index of the next (category, page)
    requests,        \* the URLs requested so far, in order
    responses,       \* what requests.get did for each of them, in order
    page_books,      \* the list each fetch_books_from_page call returned
    all_books,       \* fetch_all_books: all_books
    today,           \* filter: datetime.today().date(), 0 before it is read
    filtered_books,  \* main: filtered_books
    sorted_books,    \* main: sorted_books
    message,         \* send_line_message: message
    messages,        \* send_line_message: messages (the chunks)
    sent,            \* send_line_message: chunks the loop has gone through
    posts,           \* the POST requests issued so far, in order
    post_statuses,   \* the status code of each POST response received
    result           \* what the entry point returned

vars ==
    <<pc, entry, exc, idx, requests, responses, page_books, all_books,
      today, filtered_books, sorted_books, message, messages, sent, posts,
      post_statuses, result>>

(***************************************************************************)
(* Inputs: what the site may serve, what today may be, how a POST may end. *)
(***************************************************************************)
Text(n) == [i \in 1..n |-> 97 + (i % 7)]

Book(t, d, x) == [title |-> t, release_date |-> d, description |-> x]

Item(links, dates, paragraphs) ==
    [has_txt |-> TRUE, links |-> links, dates |-> dates,
     paragraphs |-> paragraphs]

\* an item without the div.txt container
BareItem == [has_txt |-> FALSE, links |-> <<>>, dates |-> <<>>, paragraphs |-> <<>>]

\* "2024.03.01" followed by the released suffix, and the day before it
DateMar01 == <<50, 48, 50, 52, 46, 48, 51, 46, 48, 49, 30330, 22770>>

DateFeb29 == <<50, 48, 50, 52, 46, 48, 50, 46, 50, 57, 30330, 22770>>

\* the same day as DateMar01, written without the suffix
DateMar01Bare == <<50, 48, 50, 52, 46, 48, 51, 46, 48, 49>>

\* one-digit month, and a space before the suffix
DateMay30 == <<50, 48, 50, 52, 46, 53, 46, 51, 48, 32, 30330, 22770>>

DateMay31 == <<50, 48, 50, 52, 46, 48, 53, 46, 51, 49, 30330, 22770>>

DateJun15 == <<50, 48, 50, 52, 46, 48, 54, 46, 49, 53, 30330, 22770>>

\* not a calendar date
DateFeb30 == <<50, 48, 50, 52, 46, 48, 50, 46, 51, 48, 30330, 22770>>

\* "release date undecided": the suffix followed by other text
DateUndecided == <<30330, 22770, 26085, 26410, 23450>>

\* the dates datetime.today().date() is drawn from: 90 and 91 days after
\* 2024.03.01, and a day before every sample date
Todays == {Ordinal(2024, 5, 30), Ordinal(2024, 5, 31), Ordinal(2024, 2, 20)}

\* the item lists page i of the site may hold
PageContents ==
    <<
      \* (7, 1): two books released the same day
      { << Item(<< <<71, 111>> >>, << DateMar01 >>, << <<112>>, <<32, 103, 111, 32>> >>),
           Item(<< <<82, 117, 115, 116>> >>, << DateMar01 >>, << <<112>>, <<114, 115>> >>) >> },
      \* (7, 2): a book of the day before; or an item without its div.txt
      { << Item(<< <<67>> >>, << DateFeb29 >>, << <<112>>, <<99>> >>) >>,
        << Item(<< <<65, 100, 97>> >>, << DateJun15 >>, << <<112>>, <<97, 100>> >>),
           BareItem >> },
      \* (7, 3): no date label; no title link
      { << Item(<< <<76, 117, 97>> >>, << >>, << <<112>>, <<108, 117>> >>),
           Item(<< >>, << DateJun15 >>, << <<112>>, <<120>> >>) >> },
      \* (7, 4): a page without items
      { << >> },
      \* (8, 1): a single paragraph, so no description
      { << Item(<< <<32, 90, 105, 103, 10>> >>, << DateMay30 >>, << <<112>> >>) >> },
      \* (8, 2): a description long enough for a second chunk
      { << Item(<< <<78, 105, 109>> >>, << DateMay31 >>, << <<112>>, Text(LongLen) >>) >> },
      \* (8, 3): dates that do not parse
      { << Item(<< <<84, 99, 108>> >>, << DateFeb30 >>, << <<112>>, <<116>> >>),
           Item(<< <<65, 119, 107>> >>, << DateUndecided >>, << <<112>>, <<97>> >>) >> },
      \* (8, 4): the day of page (7, 1) again
      { << Item(<< <<69, 108, 109>> >>, << DateMar01Bare >>, << <<112>>, <<101>> >>) >> }
    >>

\* what requests.get(url) may do for page i: raise, or return a response
GetOutcomes(i) ==
    {[kind |-> "error", status_code |-> 0, items |-> <<>>]}
    \cup {[kind |-> "response", status_code |-> 404, items |-> <<>>]}
    \cup {[kind |-> "response", status_code |-> StatusOk, items |-> c] :
             c \in PageContents[i]}

\* what requests.post may do: raise, or return a response
PostOutcomes ==
    {[kind |-> "error", status_code |-> 0],
     [kind |-> "response", status_code |-> StatusOk],
     [kind |-> "response", status_code |-> 400]}

(***************************************************************************)
(* The run: main, called directly or by lambda_handler.                    *)
(***************************************************************************)
Init ==
    /\ pc = "fetch"
    /\ entry \in {"main", "lambda_handler"}
    /\ exc = "none"
    /\ idx = 1
    /\ requests = <<>>
    /\ responses = <<>>
    /\ page_books = <<>>
    /\ all_books = <<>>
    /\ today = 0
    /\ filtered_books = <<>>
    /\ sorted_books = <<>>
    /\ message = <<>>
    /\ messages = <<>>
    /\ sent = 0
    /\ posts = <<>>
    /\ post_statuses = <<>>
    /\ result = None

\* an exception nothing catches: it ends main, and lambda_handler with it
Raise(e) ==
    /\ pc' = "raised"
    /\ exc' = e

\* one iteration of the loops of fetch_all_books (lines 85-89), with the
\* call of fetch_books_from_page it makes
FetchPage ==
    /\ pc = "fetch"
    /\ idx <= Len(PagePairs)
    /\ \E outcome \in GetOutcomes(idx) :
          LET r == FetchBooksFromPage(outcome)
          IN  /\ requests' = Append(requests, PageUrl(PagePairs[idx]))
              /\ responses' = Append(responses, outcome)
              /\ IF r.exc # "none"
                 THEN /\ Raise(r.exc)
                      /\ UNCHANGED <<idx, page_books, all_books>>
                 ELSE /\ page_books' = Append(page_books, r.books)
                      /\ all_books' = all_books \o r.books
                      /\ idx' = idx + 1
                      /\ pc' = IF idx = Len(PagePairs) THEN "filter" ELSE "fetch"
                      /\ exc' = exc
    /\ UNCHANGED <<entry, today, filtered_books, sorted_books, message,
                   messages, sent, posts, post_statuses, result>>

\* main, line 192
Filter ==
    /\ pc = "filter"
    /\ \E t \in Todays :
          /\ today' = t
          /\ filtered_books' = FilterBooks(all_books, t)
    /\ pc' = "sort"
    /\ UNCHANGED <<entry, exc, idx, requests, responses, page_books,
                   all_books, sorted_books, message, messages, sent, posts,
                   post_statuses, result>>

\* main, line 193
Sort ==
    /\ pc = "sort"
    /\ IF SortRaises(filtered_books)
       THEN /\ Raise("ValueError")
            /\ UNCHANGED sorted_books
       ELSE /\ sorted_books' = SortBooksByDate(filtered_books)
            /\ pc' = "format"
            /\ exc' = exc
    /\ UNCHANGED <<entry, idx, requests, responses, page_books, all_books,
                   today, filtered_books, message, messages, sent, posts,
                   post_statuses, result>>

\* Format with an else branch that has no text to send
FormatEmptyText ==
    /\ pc = "format"
    /\ message' = IF sorted_books # <<>> THEN FormatMessage(sorted_books)
                  ELSE <<>>
    /\ pc' = "send"
    /\ UNCHANGED <<entry, exc, idx, requests, responses, page_books,
                   all_books, today, filtered_books, sorted_books, messages,
                   sent, posts, post_statuses, result>>

\* main, lines 195-199: the text given to send_line_message
Format ==
    /\ pc = "format"
    /\ message' = IF sorted_books # <<>> THEN FormatMessage(sorted_books)
                  ELSE MainNoBooksMessage
    /\ pc' = "send"
    /\ UNCHANGED <<entry, exc, idx, requests, responses, page_books,
                   all_books, today, filtered_books, sorted_books, messages,
                   sent, posts, post_statuses, result>>

\* send_line_message, line 170
Split ==
    /\ pc = "send"
    /\ messages' = SplitMessage(message)
    /\ pc' = "post"
    /\ UNCHANGED <<entry, exc, idx, requests, responses, page_books,
                   all_books, today, filtered_books, sorted_books, message,
                   sent, posts, post_statuses, result>>

\* AfterResponse with response.raise_for_status()
AfterResponseRaising(status_code) ==
    /\ post_statuses' = Append(post_statuses, status_code)
    /\ IF status_code # StatusOk
       THEN /\ Raise("HTTPError")
            /\ UNCHANGED sent
       ELSE /\ sent' = sent + 1
            /\ UNCHANGED <<pc, exc>>

\* how the loop of send_line_message goes on after a response
AfterResponse(status_code) ==
    /\ sent' = sent + 1
    /\ post_statuses' = Append(post_statuses, status_code)
    /\ UNCHANGED <<pc, exc>>

\* send_line_message, one iteration of the loop of lines 172-182
Post ==
    /\ pc = "post"
    /\ sent < Len(messages)
    /\ posts' = Append(posts, PushRequest(messages[sent + 1]))
    /\ \E outcome \in PostOutcomes :
          IF outcome.kind = "error"
          THEN /\ Raise("ConnectionError")
               /\ UNCHANGED <<sent, post_statuses>>
          ELSE AfterResponse(outcome.status_code)
    /\ UNCHANGED <<entry, idx, requests, responses, page_books, all_books,
                   today, filtered_books, sorted_books, message, messages,
                   result>>

\* the loop is over: send_line_message and main return, and lambda_handler
\* returns its payload (lines 213-217)
Return ==
    /\ pc = "post"
    /\ sent = Len(messages)
    /\ pc' = "done"
    /\ result' = IF entry = "lambda_handler" THEN LambdaResponse ELSE None
    /\ UNCHANGED <<entry, exc, idx, requests, responses, page_books,
                   all_books, today, filtered_books, sorted_books, message,
                   messages, sent, posts, post_statuses>>

Next == FetchPage \/ Filter \/ Sort \/ Format \/ Split \/ Post \/ Return

Spec == Init /\ [][Next]_vars

(***************************************************************************)
(* filter, sort and format on lists of records drawn from a bounded set:   *)
(* main from line 192 on, for any list fetch_all_books may have returned.  *)
(***************************************************************************)
SampleBooks ==
    { Book(<<71, 111>>, DateMar01, <<103, 111>>),
      Book(<<82, 117, 115, 116>>, DateMar01, <<114, 115>>),
      Book(<<67>>, DateFeb29, <<99>>),
      Book(<<65, 100, 97>>, DateJun15, NA),
      Book(<<90, 105, 103>>, DateMay30, <<122>>),
      Book(<<76, 117, 97>>, NA, <<108, 117>>),
      Book(NA, DateFeb30, <<116>>) }

SeqsUpTo(S, n) == UNION {[1..k -> S] : k \in 0..n}

InitUnit ==
    /\ pc = "filter"
    /\ entry = "main"
    /\ exc = "none"
    /\ idx = Len(PagePairs) + 1
    /\ requests = <<>>
    /\ responses = <<>>
    /\ page_books = <<>>
    /\ all_books \in SeqsUpTo(SampleBooks, MaxBooks)
    /\ today = 0
    /\ filtered_books = <<>>
    /\ sorted_books = <<>>
    /\ message = <<>>
    /\ messages = <<>>
    /\ sent = 0
    /\ posts = <<>>
    /\ post_statuses = <<>>
    /\ result = None

NextUnit == Filter \/ Sort \/ Format

SpecUnit == InitUnit /\ [][NextUnit]_vars

(***************************************************************************)
(* send_line_message on messages drawn from a bounded set: every length    *)
(* next to a multiple of the chunk size, the empty message included.       *)
(***************************************************************************)
SampleLengths ==
    {n \in {k * ChunkSize + d : k \in 0..MaxChunks, d \in {-1, 0, 1}} : n >= 0}

InitSend ==
    /\ pc = "send"
    /\ entry \in {"main", "lambda_handler"}
    /\ exc = "none"
    /\ idx = Len(PagePairs) + 1
    /\ requests = <<>>
    /\ responses = <<>>
    /\ page_books = <<>>
    /\ all_books = <<>>
    /\ today = 0
    /\ filtered_books = <<>>
    /\ sorted_books = <<>>
    /\ message \in {Text(n) : n \in SampleLengths}
    /\ messages = <<>>
    /\ sent = 0
    /\ posts = <<>>
    /\ post_statuses = <<>>
    /\ result = None

NextSend == Split \/ Post \/ Return

SpecSend == InitSend /\ [][NextSend]_vars

(***************************************************************************)
(* Properties.                                                             *)
(***************************************************************************)
\* the filter has run: it is what reads today
FilterDone == today # 0

\* fetch_all_books has returned
FetchReturned == idx = 9

Occurrences(seq, x) == Cardinality({i \in 1..Len(seq) : seq[i] = x})

\* a is b with some elements left out, the others in b's order
RECURSIVE IsSubsequence(_, _)
IsSubsequence(a, b) ==
    IF a = <<>> THEN TRUE
    ELSE IF b = <<>> THEN FALSE
    ELSE IF Head(a) = Head(b) THEN IsSubsequence(Tail(a), Tail(b))
    ELSE IsSubsequence(a, Tail(b))

RECURSIVE Flatten(_)
Flatten(seqs) == IF seqs = <<>> THEN <<>> ELSE Head(seqs) \o Flatten(Tail(seqs))

PermutationsOf(n) ==
    {f \in [1..n -> 1..n] : \A i, j \in 1..n : i # j => f[i] # f[j]}

\* the text of the i-th POST
PostedText(i) == posts[i].messages[1].text

PostedTexts == [i \in 1..Len(posts) |-> PostedText(i)]

\* C1: the filter retains a record with a parseable date iff the date is
\* after today or from today-90 to today; a record of exactly today-90 is
\* retained, one of exactly today-91 is not.
C1_FilterWindow ==
    FilterDone =>
        \A i \in 1..Len(all_books) :
            LET book == all_books[i]
                date == ReleaseDate(book)
                retained == Occurrences(filtered_books, book)
            IN  date.ok =>
                  /\ retained \in {0, Occurrences(all_books, book)}
                  /\ (retained > 0) <=>
                        \/ date.ord > today
                        \/ (today - 90 <= date.ord /\ date.ord <= today)
                  /\ date.ord = today - 90 => retained > 0
                  /\ date.ord = today - 91 => retained = 0

\* a filtered list whose input held a record of today-90 (kept), one of
\* today-91 (dropped) and one of a later day (kept)
C1_Witness ==
    /\ FilterDone
    /\ \E i, j, k \in 1..Len(all_books) :
          /\ ReleaseDate(all_books[i]).ok
          /\ ReleaseDate(all_books[i]).ord = today - 90
          /\ Occurrences(filtered_books, all_books[i]) = 1
          /\ ReleaseDate(all_books[j]).ok
          /\ ReleaseDate(all_books[j]).ord = today - 91
          /\ Occurrences(filtered_books, all_books[j]) = 0
          /\ ReleaseDate(all_books[k]).ok
          /\ ReleaseDate(all_books[k]).ord > today
          /\ Occurrences(filtered_books, all_books[k]) = 1

\* C2: the sorted list is a permutation of the filtered list, non-increasing
\* by release date, and records of equal date keep their relative order.
C2_SortStableDescending ==
    pc \in {"format", "send"} =>
        /\ Len(sorted_books) = Len(filtered_books)
        /\ \A i \in 1..(Len(sorted_books) - 1) :
              ReleaseDate(sorted_books[i]).ord >= ReleaseDate(sorted_books[i + 1]).ord
        /\ \E f \in PermutationsOf(Len(filtered_books)) :
              /\ \A i \in 1..Len(sorted_books) : sorted_books[i] = filtered_books[f[i]]
              /\ \A i, j \in 1..Len(sorted_books) :
                    (/\ i < j
                     /\ ReleaseDate(sorted_books[i]).ord = ReleaseDate(sorted_books[j]).ord)
                    => f[i] < f[j]

\* a sort that moved a later date to the front and left two different
\* records of one date in their order
C2_Witness ==
    /\ pc = "format"
    /\ Len(sorted_books) = 3
    /\ sorted_books # filtered_books
    /\ \E i, j \in 1..3 :
          /\ i < j
          /\ filtered_books[i] # filtered_books[j]
          /\ ReleaseDate(filtered_books[i]).ord = ReleaseDate(filtered_books[j]).ord
          /\ \E k \in 1..3 : ReleaseDate(filtered_books[k]).ord
                                # ReleaseDate(filtered_books[i]).ord

\* C3: the chunks, concatenated in order, are the message; each holds from
\* 1 to 5000 characters; there are ceil(len/5000) of them, so none for the
\* empty message, for which no request is sent.
C3_Chunks ==
    pc \in {"post", "done", "raised"} =>
        LET n == Len(messages)
        IN  /\ Flatten(messages) = message
            /\ \A k \in 1..n : Len(messages[k]) >= 1 /\ Len(messages[k]) <= 5000
            /\ n * 5000 >= Len(message)
            /\ n > 0 => (n - 1) * 5000 < Len(message)
            /\ Len(message) = 0 => (n = 0 /\ posts = <<>>)

\* a message of two full chunks and one character more, sent
C3_Witness ==
    /\ pc = "done"
    /\ Len(message) = 10001
    /\ Len(messages) = 3
    /\ Len(messages[3]) = 1
    /\ Len(posts) = 3

C5_MainOrder ==
    /\ FilterDone => (FetchReturned /\ Len(requests) = 8)
    /\ (pc \in {"format", "send", "post", "done"} \/ sorted_books # <<>>)
          => FilterDone
    /\ (message # <<>> \/ messages # <<>> \/ posts # <<>>)
          => (FilterDone /\ pc \in {"send", "post", "done", "raised"})
    /\ pc = "done" =>
          /\ Len(posts) >= 1
          /\ sorted_books # <<>> =>
                Flatten(PostedTexts) = FormatMessage(sorted_books)
          /\ sorted_books = <<>> =>
                (Len(posts) = 1 /\ PostedText(1) = NoBooksMessage)
          /\ (\A i \in 1..8 : responses[i].status_code # 200) =>
                (Len(posts) = 1 /\ PostedText(1) = NoBooksMessage)

\* a completed run in which every page was answered 404
C5_Witness ==
    /\ pc = "done"
    /\ \A i \in 1..8 : responses[i].kind = "response" /\ responses[i].status_code = 404
    /\ Len(posts) = 1

\* C6: one POST per chunk, in chunk order, each to the one recipient; a
\* status other than success does not raise, is not followed by the same
\* chunk again and does not keep the other chunks from being posted, and
\* the run completes, lambda_handler returning its 200 payload.
C6_PostPerChunk ==
    /\ Len(posts) <= Len(messages)
    /\ \A i \in 1..Len(posts) :
          /\ posts[i].to = LINE_USER_ID
          /\ posts[i].url = LINE_BOT_PUSH_URL
          /\ posts[i].messages = <<[type |-> "text", text |-> messages[i]]>>
    /\ Len(post_statuses) = sent
    /\ (pc = "raised" /\ posts # <<>>) => Len(posts) = Len(post_statuses) + 1
    /\ pc \in {"send", "post"} => Len(posts) = Len(post_statuses)
    /\ pc = "done" =>
          /\ Len(posts) = Len(messages)
          /\ Len(post_statuses) = Len(messages)
          /\ exc = "none"
          /\ entry = "lambda_handler" =>
                result = [statusCode |-> 200, body |-> "\"News sent successfully!\""]

\* lambda_handler returned its payload after two chunks, the first of which
\* was answered 400
C6_Witness ==
    /\ pc = "done"
    /\ entry = "lambda_handler"
    /\ Len(messages) = 2
    /\ Len(posts) = 2
    /\ post_statuses[1] = 400
    /\ result = LambdaResponse

\* C7: a page fetch that fails, by a status other than 200 or by an error
\* raised by the request, counts as a page of no records and the run goes on.
C7_TransportFailureTolerated ==
    \A i \in 1..Len(responses) :
        (responses[i].kind = "error" \/ responses[i].status_code # 200)
        => /\ pc # "raised"
           /\ Len(page_books) >= i
           /\ page_books[i] = <<>>

\* the text of a field: the first element's text, stripped, or 'N/A'
FieldOrNA(texts, n) == IF Len(texts) >= n THEN Strip(texts[n]) ELSE NA

\* C8: a page answered 200 gives one record per listing item, each field
\* of which is the text found or 'N/A'; a missing sub-element, the text
\* container included, never raises.
C8_FallbackPerField ==
    /\ exc # "AttributeError"
    /\ \A i \in 1..Len(responses) :
          (responses[i].kind = "response" /\ responses[i].status_code = 200)
          => /\ Len(page_books) >= i
             /\ Len(page_books[i]) = Len(responses[i].items)
             /\ \A k \in 1..Len(responses[i].items) :
                   LET item == responses[i].items[k]
                       book == page_books[i][k]
                   IN  /\ book.title = FieldOrNA(item.links, 1)
                       /\ book.release_date = FieldOrNA(item.dates, 1)
                       /\ book.description = FieldOrNA(item.paragraphs, 2)

\* where the block of the i-th record starts in the digest
RECURSIVE BlockStart(_, _)
BlockStart(books, i) ==
    IF i = 1 THEN Len(MessageHeader) + 1
    ELSE BlockStart(books, i - 1) + Len(TitleLabel) + Len(books[i - 1].title)
            + Len(DateLabel) + Len(books[i - 1].release_date)
            + Len(DescriptionLabel) + Len(books[i - 1].description)
            + Len(BlockEnd)

\* C9: format_message gives the fixed text for the empty list, which is the
\* text main sends for an empty sorted list; for a non-empty list it gives
\* the header and then one block per record in the order given, holding the
\* title, the release date and the description in that order; never the
\* empty string.
C9_FormatBlocks ==
    pc = "send" =>
        /\ sorted_books = <<>> =>
              (message = FormatMessage(<<>>) /\ Len(message) = 16)
        /\ sorted_books # <<>> =>
              /\ message # <<>>
              /\ StartsWithAt(message, 1, MessageHeader)
              /\ Len(message) + 1 = BlockStart(sorted_books, Len(sorted_books) + 1)
              /\ \A i \in 1..Len(sorted_books) :
                    LET book == sorted_books[i]
                        p1 == BlockStart(sorted_books, i)
                        p2 == p1 + Len(TitleLabel)
                        p3 == p2 + Len(book.title)
                        p4 == p3 + Len(DateLabel)
                        p5 == p4 + Len(book.release_date)
                        p6 == p5 + Len(DescriptionLabel)
                        p7 == p6 + Len(book.description)
                    IN  /\ StartsWithAt(message, p1, TitleLabel)
                        /\ StartsWithAt(message, p2, book.title)
                        /\ StartsWithAt(message, p3, DateLabel)
                        /\ StartsWithAt(message, p4, book.release_date)
                        /\ StartsWithAt(message, p5, DescriptionLabel)
                        /\ StartsWithAt(message, p6, book.description)
                        /\ StartsWithAt(message, p7, BlockEnd)

\* a digest of two different records
C9_Witness ==
    /\ pc = "send"
    /\ Len(sorted_books) = 2
    /\ sorted_books[1] # sorted_books[2]
    /\ sorted_books[1].release_date # sorted_books[1].description
    /\ Len(message) > Len(MessageHeader)

\* C10: the filter drops the records whose date does not parse and raises
\* nothing; what it returns is its input with records left out, in the same
\* order, every date parseable; the sort that follows does not raise.
C10_FilterDropsUnparsed ==
    FilterDone =>
        /\ IsSubsequence(filtered_books, all_books)
        /\ \A i \in 1..Len(filtered_books) : ReleaseDate(filtered_books[i]).ok
        /\ \A i \in 1..Len(all_books) :
              ~ReleaseDate(all_books[i]).ok
              => Occurrences(filtered_books, all_books[i]) = 0
        /\ pc # "raised"
        /\ exc = "none"

\* the sort has run on a filtered list of two records, the filter having
\* dropped a record whose date is 'N/A'
C10_Witness ==
    /\ pc = "format"
    /\ Len(filtered_books) = 2
    /\ Len(sorted_books) = 2
    /\ \E i \in 1..Len(all_books) : all_books[i].release_date = NA

=============================================================================
